---- MODULE Spec2Model ----
(***************************************************************************)
(* Model of the blog backend's response cache (middleware/cache.ts) and of *)
(* the post routes that use it (routes/posts.ts).                          *)
(*                                                                         *)
(* A request is a record in a slot of `reqs`; it advances one step per     *)
(* action, a step ending at each `await` on the persistence layer.  The    *)
(* cache is the node-cache instance: a map from key strings to payloads.   *)
(* Strings are TLA+ strings, handled character by character, so that       *)
(* startsWith / includes / split are computed as JavaScript computes them. *)
(***************************************************************************)
EXTENDS Integers, Sequences, FiniteSets, TLC

(***************************************************************************)
(* Bounds of the model.                                                    *)
(***************************************************************************)
\* requests started in one behaviour of Spec; SpecLong and SpecConc start one more
MaxRequests == 2
\* requests started in one behaviour of SpecFull (the cache starts nearly full)
MaxRequestsFull == 1
\* handlers in flight at the same time in SpecConc
MaxInflight == 2

(***************************************************************************)
(* Program constants.                                                      *)
(***************************************************************************)
\* CACHE_CONFIG.MAX_SIZE, passed to node-cache as maxKeys
MAX_SIZE == 1000
\* default page size of the listing routes: parseInt(req.query.limit) || 10
DefaultLimit == 10
\* CACHE_CONFIG.TTL_DEFAULT, TTL_POSTS_LIST (both 5 * 60 * 1000) and
\* TTL_POSTS_SINGLE (10 * 60 * 1000): the numbers handed to node-cache as
\* stdTTL and as the ttl of cache.set
TTL_DEFAULT == 300000
TTL_POSTS_LIST == 300000
TTL_POSTS_SINGLE == 600000

(***************************************************************************)
(* JavaScript string primitives.                                           *)
(***************************************************************************)
\* the i-th character (1-based) of s, as a one-character string
CharAt(s, i) == SubSeq(s, i, i)

\* String.prototype.startsWith
StartsWith(s, p) == Len(s) >= Len(p) /\ SubSeq(s, 1, Len(p)) = p

\* String.prototype.includes
Includes(s, p) ==
  \E i \in 1..(Len(s) - Len(p) + 1) : SubSeq(s, i, i + Len(p) - 1) = p

\* s.split('?')[0]: the part of s before the first '?', all of s when none
BeforeQuestionMark(s) ==
  LET hits == {i \in 1..Len(s) : CharAt(s, i) = "?"}
  IN  IF hits = {} THEN s
      ELSE SubSeq(s, 1, (CHOOSE i \in hits : \A j \in hits : i <= j) - 1)

\* the characters the model's strings use, in UTF-16 code unit order
CodeUnits == " ,-/0123456789:?ABCDEFGHIJKLMNOPQRSTUVWXYZ_abcdefghijklmnopqrstuvwxyz"

CodeOf(c) == CHOOSE i \in 1..Len(CodeUnits) : CharAt(CodeUnits, i) = c

\* the default comparison of Array.prototype.sort: by UTF-16 code units
RECURSIVE StrLess(_, _)
StrLess(a, b) ==
  IF b = "" THEN FALSE
  ELSE IF a = "" THEN TRUE
  ELSE IF CharAt(a, 1) = CharAt(b, 1)
       THEN StrLess(SubSeq(a, 2, Len(a)), SubSeq(b, 2, Len(b)))
       ELSE CodeOf(CharAt(a, 1)) < CodeOf(CharAt(b, 1))

\* insertion of x into a sorted sequence of strings
RECURSIVE InsertSorted(_, _)
InsertSorted(x, s) ==
  IF s = <<>> THEN <<x>>
  ELSE IF StrLess(Head(s), x) THEN <<Head(s)>> \o InsertSorted(x, Tail(s))
  ELSE <<x>> \o s

\* Array.prototype.sort() on a sequence of strings
RECURSIVE SortStrings(_)
SortStrings(s) ==
  IF s = <<>> THEN <<>> ELSE InsertSorted(Head(s), SortStrings(Tail(s)))

\* Array.prototype.join(sep)
RECURSIVE Join(_, _)
Join(s, sep) ==
  IF s = <<>> THEN ""
  ELSE IF Len(s) = 1 THEN s[1]
  ELSE s[1] \o sep \o Join(Tail(s), sep)

(***************************************************************************)
(* The values requests are drawn from.                                     *)
(***************************************************************************)
\* ids of the registered users (signup is outside the model)
Users == {"u1", "u2"}

\* req.user when no credentials were verified: user?.id is undefined
NoUser == ""

\* what a request carries as credentials: a user's valid token, or none
Credentials == Users \cup {NoUser}

\* ids the store gives to created posts, in creation order
PostIdSeq == <<"p1", "p2">>

PostIds == {PostIdSeq[i] : i \in 1..Len(PostIdSeq)}

\* titles a POST or PUT body may carry
Titles == {"Post 1", "Post 10"}

\* the requests served by router.get('/'): the method (Express dispatches HEAD
\* to a get route), the path of req.originalUrl (non-strict routing serves
\* '/api/posts/' too) and req.query as <<name, value>> pairs in the order supplied
ListRequests ==
  { [method |-> "GET", path |-> "/api/posts", query |-> <<>>],
    [method |-> "GET", path |-> "/api/posts/", query |-> <<>>],
    [method |-> "GET", path |-> "/api/posts",
     query |-> << <<"ref", "/api/posts/">> >>],
    [method |-> "GET", path |-> "/api/posts",
     query |-> << <<"sortBy", "views">> >>],
    [method |-> "HEAD", path |-> "/api/posts", query |-> <<>>] }

\* the bodies and credentials of POST /api/posts and PUT /api/posts/:id
PostInputs ==
  [cred : Users, title : Titles, published : BOOLEAN]
    \cup {[cred |-> NoUser, title |-> "Post 1", published |-> TRUE]}

\* the target and credentials of a request on /api/posts/:id
IdInputs ==
  [cred : Users, id : PostIds] \cup {[cred |-> NoUser, id |-> "p1"]}

(***************************************************************************)
(* middleware/cache.ts: key derivation.                                    *)
(***************************************************************************)
\* req.query is the object Express parses from the <<name, value>> pairs of
\* the query string: one property per name, in the order the names first
\* occur; a name supplied more than once holds the array of its values

\* Object.keys(query)
RECURSIVE QueryKeys(_)
QueryKeys(query) ==
  IF query = <<>> THEN <<>>
  ELSE LET rest == QueryKeys(SubSeq(query, 1, Len(query) - 1))
           name == query[Len(query)][1]
       IN  IF \E i \in 1..Len(rest) : rest[i] = name THEN rest
           ELSE Append(rest, name)

\* whether query has the property key
QueryHas(query, key) == \E i \in 1..Len(query) : query[i][1] = key

\* the values supplied under key, in the order supplied
RECURSIVE QueryValues(_, _)
QueryValues(query, key) ==
  IF query = <<>> THEN <<>>
  ELSE IF Head(query)[1] = key
       THEN <<Head(query)[2]>> \o QueryValues(Tail(query), key)
       ELSE QueryValues(Tail(query), key)

\* `${query[key]}`: the value, or the values of an array joined by ','
QueryValue(query, key) == Join(QueryValues(query, key), ",")

\* req.originalUrl: the path followed by '?' and the query string
OriginalUrl(path, query) ==
  IF query = <<>> THEN path
  ELSE path \o "?" \o
       Join([i \in 1..Len(query) |-> query[i][1] \o "=" \o query[i][2]], "&")

generateCacheKey(originalUrl, user, query) ==
  LET userId == IF user = NoUser THEN "anonymous" ELSE user
      fullPath == BeforeQuestionMark(originalUrl)
      sorted == SortStrings(QueryKeys(query))
      queryString ==
        Join([i \in 1..Len(sorted) |->
                sorted[i] \o ":" \o QueryValue(query, sorted[i])], ":")
  IN  fullPath \o ":" \o userId \o ":" \o queryString

(***************************************************************************)
(* node-cache, as configured in middleware/cache.ts.  A store is a         *)
(* function from the keys it holds to the values stored for them.          *)
(***************************************************************************)
\* what cache.get returns for a key the store does not hold
Undefined == [undefined |-> TRUE]

EmptyCache == [k \in {} |-> Undefined]

CacheKeys(c) == DOMAIN c

CacheGet(c, key) == IF key \in DOMAIN c THEN c[key] ELSE Undefined

\* a store that never refuses a set
SetThrowsNever(c) == FALSE

\* set() throws ECACHEFULL when stats.keys >= maxKeys, before looking at the key
CacheSetThrows(c) == Cardinality(DOMAIN c) >= MAX_SIZE

CacheSet(c, key, value) ==
  [k \in DOMAIN c \cup {key} |-> IF k = key THEN value ELSE c[k]]

\* the store without the keys of ks: cache.del on each
CacheDel(c, ks) == [k \in DOMAIN c \ ks |-> c[k]]

\* node-cache counts a ttl in seconds: the instant (in milliseconds) at which a
\* value set at instant at with that ttl expires; 0 stands for never
Livetime(at, ttl) == IF ttl = 0 THEN 0 ELSE at + ttl * 1000

\* the keys of entries whose expiry instant has passed at the instant given;
\* o holds the expiry instant t of every entry
Expired(o, instant) == {k \in DOMAIN o : o[k].t # 0 /\ o[k].t < instant}

(***************************************************************************)
(* middleware/cache.ts: invalidateCache.                                   *)
(***************************************************************************)
ListCacheKey(key) ==
  \/ StartsWith(key, "/api/posts:") /\ ~Includes(key, "/api/posts/")
  \/ StartsWith(key, "/api/posts/my-posts:")

invalidateListCaches(c) ==
  CacheDel(c, {key \in CacheKeys(c) : ListCacheKey(key)})

invalidatePostCache(c, slug) ==
  CacheDel(c, {key \in CacheKeys(c) : Includes(key, "/api/posts/" \o slug)})

\* an invalidation that looks for the identity at the start of the key
invalidateUserCachesByPrefix(c, userId) ==
  CacheDel(c, {key \in CacheKeys(c) : StartsWith(key, userId \o ":")})

invalidateUserCaches(c, userId) ==
  CacheDel(c, {key \in CacheKeys(c) : Includes(key, ":" \o userId \o ":")})

(***************************************************************************)
(* utils/auth.ts: generateSlug.  Lower-cases the title, turns every run of *)
(* spaces and hyphens into one hyphen and drops any other character that   *)
(* is not a letter or a digit.                                             *)
(***************************************************************************)
UpperCase == "ABCDEFGHIJKLMNOPQRSTUVWXYZ"

LowerCase == "abcdefghijklmnopqrstuvwxyz"

Digits == "0123456789"

IndexIn(alphabet, c) ==
  LET hits == {i \in 1..Len(alphabet) : CharAt(alphabet, i) = c}
  IN  IF hits = {} THEN 0 ELSE CHOOSE i \in hits : TRUE

\* what one character of the title contributes to the slug
SlugChar(c) ==
  IF IndexIn(UpperCase, c) > 0 THEN CharAt(LowerCase, IndexIn(UpperCase, c))
  ELSE IF IndexIn(LowerCase, c) > 0 \/ IndexIn(Digits, c) > 0 THEN c
  ELSE IF c = " " \/ c = "-" THEN "-"
  ELSE ""

RECURSIVE SlugFrom(_, _)
SlugFrom(title, acc) ==
  IF title = "" THEN acc
  ELSE LET c == SlugChar(CharAt(title, 1))
           rest == SubSeq(title, 2, Len(title))
       IN  IF c = "-" /\ (acc = "" \/ CharAt(acc, Len(acc)) = "-")
           THEN SlugFrom(rest, acc)
           ELSE SlugFrom(rest, acc \o c)

generateSlug(title) ==
  LET s == SlugFrom(title, "")
  IN  IF s # "" /\ CharAt(s, Len(s)) = "-" THEN SubSeq(s, 1, Len(s) - 1) ELSE s

\* the slugs a stored post can have, and a single-post request can name
Slugs == {generateSlug(t) : t \in Titles}

(***************************************************************************)
(* State.                                                                  *)
(***************************************************************************)
VARIABLES
  posts,     \* the posts table: post id -> [title, slug, published, authorId]
  created,   \* how many posts were ever created (the next id is the next of PostIdSeq)
  saved,     \* the saved_posts table: <<userId, postId>> rows, oldest first
  cache,     \* the node-cache store: key -> stored payload
  origin,    \* per cache key: t, the instant node-cache lets the entry expire, and
             \* as history the instant at, the status, identity, route, slug and
             \* store version of the response that populated the entry
  clock,     \* history: the number of writes the store has executed
  lastDone,  \* history, per kind of mutation: the store version written by the
             \* last request of that kind that has finished (write and invalidation)
  reqs,      \* the handlers in flight: slot -> request record
  started,   \* how many requests have been started
  cap,       \* how many handlers may be in flight at once
  budget,    \* how many requests one behaviour starts
  comments,  \* prisma.comment: the comments in creation order; the id is the index
  now        \* Date.now(): milliseconds since the server started

vars ==
  <<posts, created, saved, cache, origin, clock, lastDone, reqs, started,
    cap, budget, comments, now>>

Slots == 1..MaxInflight

\* the kinds of mutation lastDone tells apart
Tags ==
  {"post"} \cup {"save:" \o u : u \in Users} \cup {"put:" \o s : s \in Slugs}
    \cup {k \o ":" \o u \o ":" \o p : k \in {"like", "unlike"}, u \in Users, p \in PostIds}

Max(a, b) == IF a >= b THEN a ELSE b

(***************************************************************************)
(* Requests and responses.                                                 *)
(***************************************************************************)
\* a free slot; also the shape of every request record
NewReq ==
  [ route |-> "idle",      \* which route of routes/posts.ts serves the request
    method |-> "GET",
    cred |-> NoUser,       \* whose valid token the request carries
    user |-> NoUser,       \* req.user.id once authenticateToken has run
    url |-> "",            \* req.originalUrl
    query |-> <<>>,        \* req.query
    id |-> "",             \* req.params.id
    slug |-> "",           \* req.params.slug, or the slug the mutation works on
    oldSlug |-> "",        \* existingPost.slug
    title |-> "",          \* req.body.title
    published |-> FALSE,   \* req.body.published
    pc |-> "idle",         \* where the handler is suspended; "done": response sent
    key |-> "",            \* cacheKey of the middleware's closure
    wrapped |-> FALSE,     \* res.json was replaced by the caching wrapper
    hit |-> FALSE,         \* answered by the middleware from the cache
    cacheReads |-> 0,      \* calls of cache.get
    nextCalls |-> 0,       \* calls of next() by the cache middleware
    queries |-> 0,         \* persistence calls made for the request
    status |-> 0,          \* res.statusCode of the response
    body |-> Undefined,    \* the JSON body of the response
    commentId |-> 0,       \* req.params.commentId; 0: the route has none
    cursor |-> 0,          \* commentId of the getThreadDepth call in progress
    depth |-> 0,           \* depth of the getThreadDepth call in progress, then
                           \* the threadDepth it resolved to
    newId |-> 0,           \* history: id of the comment the request created
    hasTags |-> FALSE,     \* req.body.tags !== undefined
    tags |-> {},           \* req.body.tags: tag ids
    removed |-> {},        \* history: the cache keys the request's invalidation deleted
    asOf |-> 0,            \* history: the store version the body was computed from
    w |-> 0 ]              \* history: the store version the request's write made

ErrorBody(msg) == [error |-> msg]

\* what Express's final handler answers after errorHandler itself threw
InternalError == ErrorBody("Internal Server Error")

PostView(p) ==
  [id |-> p, title |-> posts[p].title, slug |-> posts[p].slug,
   published |-> posts[p].published, authorId |-> posts[p].authorId,
   viewCount |-> posts[p].viewCount]

\* postWithLikes: the post with the number of its postLike rows
PostWithLikes(p) ==
  [id |-> p, title |-> posts[p].title, slug |-> posts[p].slug,
   published |-> posts[p].published, authorId |-> posts[p].authorId,
   viewCount |-> posts[p].viewCount, likeCount |-> Cardinality(posts[p].likedBy)]

\* the elements of seq that are in keep, newest (last) first
RECURSIVE NewestFirst(_, _)
NewestFirst(seq, keep) ==
  IF seq = <<>> THEN <<>>
  ELSE LET rest == NewestFirst(SubSeq(seq, 1, Len(seq) - 1), keep)
       IN  IF seq[Len(seq)] \in keep THEN <<seq[Len(seq)]>> \o rest ELSE rest

\* parseInt(s) for a string without sign or leading blanks: the number its
\* leading decimal digits spell, NaN when it starts with none
NaN == -1

RECURSIVE LeadingDigits(_, _)
LeadingDigits(s, acc) ==
  IF s = "" \/ IndexIn(Digits, CharAt(s, 1)) = 0 THEN acc
  ELSE LeadingDigits(SubSeq(s, 2, Len(s)),
                     10 * acc + IndexIn(Digits, CharAt(s, 1)) - 1)

ParseInt(s) ==
  IF s = "" \/ IndexIn(Digits, CharAt(s, 1)) = 0 THEN NaN ELSE LeadingDigits(s, 0)

\* parseInt(req.query.page) || 1: NaN and 0 are falsy
PageOf(query) ==
  IF ~QueryHas(query, "page") THEN 1
  ELSE IF ParseInt(QueryValue(query, "page")) \in {NaN, 0} THEN 1
  ELSE ParseInt(QueryValue(query, "page"))

\* skip = (page - 1) * limit, take = limit
PageSlice(seq, page) ==
  SubSeq(seq, (page - 1) * DefaultLimit + 1,
         IF page * DefaultLimit <= Len(seq) THEN page * DefaultLimit ELSE Len(seq))

\* the body GET /api/posts computes: published posts, newest first
ListBody(query) ==
  LET ids == NewestFirst(PostIdSeq, {p \in DOMAIN posts : posts[p].published})
  IN  [posts |-> [i \in DOMAIN PageSlice(ids, PageOf(query)) |->
                    PostView(PageSlice(ids, PageOf(query))[i])],
       page |-> PageOf(query), total |-> Len(ids)]

\* the body GET /api/posts/saved computes: the user's saved posts, newest save first
SavedBody(userId) ==
  LET rows == NewestFirst(saved, {row \in {saved[i] : i \in DOMAIN saved} : row[1] = userId})
  IN  [posts |-> [i \in DOMAIN rows |-> PostView(rows[i][2])],
       page |-> 1, total |-> Len(rows)]

\* the body GET /api/posts/my-posts computes: the user's posts, drafts
\* included, newest first
MyPostsBody(userId) ==
  LET ids == NewestFirst(PostIdSeq, {p \in DOMAIN posts : posts[p].authorId = userId})
  IN  [posts |-> [i \in DOMAIN ids |-> PostView(ids[i])],
       page |-> 1, total |-> Len(ids)]

\* prisma.post.findUnique({ where: { slug } }): the id of the post, "" when none
PostBySlug(slug) ==
  LET hits == {p \in DOMAIN posts : posts[p].slug = slug}
  IN  IF hits = {} THEN "" ELSE CHOOSE p \in hits : TRUE

(***************************************************************************)
(* middleware/cache.ts: cacheMiddleware(ttl).                              *)
(***************************************************************************)
\* the lookup and its two outcomes: answered from the cache (hit), or passed
\* on with next() and res.json wrapped
LookUp(r) ==
  LET cacheKey == generateCacheKey(r.url, r.user, r.query)
      cachedData == IF cacheKey \in Expired(origin, now) THEN Undefined
                    ELSE CacheGet(cache, cacheKey)
  IN  IF cachedData # Undefined
      THEN [r EXCEPT !.key = cacheKey, !.cacheReads = @ + 1, !.hit = TRUE,
                     !.status = 200, !.body = cachedData,
                     !.asOf = origin[cacheKey].asOf, !.pc = "done"]
      ELSE [r EXCEPT !.key = cacheKey, !.cacheReads = @ + 1,
                     !.wrapped = TRUE, !.nextCalls = @ + 1]

\* a middleware without the test of req.method
cacheMiddlewareAnyMethod(r) == LookUp(r)

\* a middleware that goes on to next() after answering from the cache
cacheMiddlewareNextOnHit(r) ==
  IF r.method # "GET"
  THEN [r EXCEPT !.nextCalls = @ + 1]
  ELSE [LookUp(r) EXCEPT !.nextCalls = 1]

\* the request after the middleware ran: a method other than GET goes
\* straight to next()
cacheMiddleware(r) ==
  IF r.method # "GET"
  THEN [r EXCEPT !.nextCalls = @ + 1]
  ELSE LookUp(r)

\* the ttl the route hands to cacheMiddleware(ttl)
TtlOf(route) ==
  IF route \in {"post", "draft"} THEN TTL_POSTS_SINGLE ELSE TTL_POSTS_LIST

\* res.status(status).json(data) of a handler: with the wrapper installed the
\* payload is stored first, and a throwing cache.set ends the request in
\* Express's error path instead of sending data
ResJsonIn(c, o, r, status, data) ==
  LET ttl == TtlOf(r.route)
      cacheTTL == IF ttl # 0 THEN ttl ELSE TTL_DEFAULT
  IN  IF ~r.wrapped
      THEN [cache |-> c, origin |-> o,
            r |-> [r EXCEPT !.status = status, !.body = data, !.pc = "done"]]
      ELSE IF CacheSetThrows(c)
      THEN [cache |-> c, origin |-> o,
            r |-> [r EXCEPT !.status = 500, !.body = InternalError, !.pc = "done"]]
      ELSE [cache |-> CacheSet(c, r.key, data),
            origin |-> CacheSet(o, r.key,
                                [t |-> Livetime(now, cacheTTL), at |-> now,
                                 status |-> status, user |-> r.user, asOf |-> r.asOf,
                                 route |-> r.route, slug |-> r.slug]),
            r |-> [r EXCEPT !.status = status, !.body = data, !.pc = "done"]]

ResJson(r, status, data) == ResJsonIn(cache, origin, r, status, data)

(***************************************************************************)
(* Scheduling.                                                             *)
(***************************************************************************)
Active == {i \in Slots : reqs[i].route # "idle"}

\* the responses sent by the step just taken
Responses == {reqs[i] : i \in {j \in Slots : reqs[j].pc = "done"}}

\* a response is on its way out: it leaves before any other step is taken
Quiet == Responses = {}

\* the handler in slot i is suspended at pc and is resumed
At(i, pc) == reqs[i].pc = pc /\ Quiet

\* a new request arrives and takes the first free slot
CanStart(i) ==
  /\ reqs[i].route = "idle"
  /\ Quiet
  /\ \A j \in 1..(i - 1) : reqs[j].route # "idle"
  /\ started < budget
  /\ Cardinality(Active) < cap

\* the handler in slot i sends its response r and ends; a step of a handler
\* takes no time
Finish(i, r) == reqs' = [reqs EXCEPT ![i] = r] /\ now' = now

\* the handler in slot i suspends at a persistence call
Suspend(i, r) == reqs' = [reqs EXCEPT ![i] = r] /\ now' = now

\* the response of slot i has left; the slot is free again
Deliver(i) ==
  /\ reqs[i].pc = "done"
  /\ reqs' = [reqs EXCEPT ![i] = NewReq]
  /\ UNCHANGED <<posts, created, saved, comments, cache, origin, clock, lastDone, started,
                 cap, budget, now>>

\* the handler answers through res.json and ends
Answer(i, r, status, data) ==
  LET out == ResJson(r, status, data)
  IN  /\ cache' = out.cache
      /\ origin' = out.origin
      /\ Finish(i, out.r)

(***************************************************************************)
(* routes/posts.ts: the read routes.                                       *)
(***************************************************************************)
ValidSortFields == {"createdAt", "updatedAt", "title"}

\* a route that has cacheMiddleware in front of authenticateToken
StartReadCacheFirst(i, r0, authenticated) ==
  /\ CanStart(i)
  /\ started' = started + 1
  /\ UNCHANGED <<posts, created, saved, comments, clock, lastDone, cap, budget,
                 cache, origin>>
  /\ LET r1 == cacheMiddleware([r0 EXCEPT !.asOf = clock])
     IN  IF r1.hit
         THEN Finish(i, r1)
         ELSE IF authenticated /\ r0.cred = NoUser
         THEN Finish(i, [r1 EXCEPT !.status = 401, !.pc = "done",
                                   !.body = ErrorBody("Access token required")])
         ELSE Suspend(i, [r1 EXCEPT !.user = IF authenticated THEN r0.cred ELSE NoUser,
                                    !.pc = "query"])

\* authenticateToken (when the route has it), then cacheMiddleware, then the
\* handler up to its first persistence call
StartRead(i, r0, authenticated) ==
  /\ CanStart(i)
  /\ started' = started + 1
  /\ UNCHANGED <<posts, created, saved, comments, clock, lastDone, cap, budget>>
  /\ IF authenticated /\ r0.cred = NoUser
     THEN /\ Finish(i, [r0 EXCEPT !.status = 401, !.pc = "done",
                                  !.body = ErrorBody("Access token required")])
          /\ UNCHANGED <<cache, origin>>
     ELSE LET r1 == cacheMiddleware(
                      [r0 EXCEPT !.user = IF authenticated THEN r0.cred ELSE NoUser,
                                 !.asOf = clock])
              \* cache.get deletes the entry it finds expired
              lapsed == {r1.key} \cap Expired(origin, now)
              c == CacheDel(cache, lapsed)
              o == CacheDel(origin, lapsed)
          IN  IF r1.hit
              THEN Finish(i, r1) /\ UNCHANGED <<cache, origin>>
              ELSE IF /\ r1.route = "list"
                      /\ QueryHas(r1.query, "sortBy")
                      /\ QueryValue(r1.query, "sortBy") \notin ValidSortFields
              THEN LET out == ResJsonIn(c, o, r1, 400, ErrorBody("Invalid sort field"))
                   IN  cache' = out.cache /\ origin' = out.origin /\ Finish(i, out.r)
              ELSE /\ Suspend(i, [r1 EXCEPT !.pc = "query"])
                   /\ cache' = c
                   /\ origin' = o

\* GET /api/posts
StartList(i) ==
  \E in \in ListRequests :
    StartRead(i, [NewReq EXCEPT !.route = "list", !.method = in.method,
                                !.url = OriginalUrl(in.path, in.query),
                                !.query = in.query],
              FALSE)

\* GET /api/posts/saved
StartSaved(i) ==
  \E cred \in Credentials :
    StartRead(i, [NewReq EXCEPT !.route = "saved", !.cred = cred,
                                !.url = "/api/posts/saved"],
              TRUE)

\* GET /api/posts/:slug
StartPost(i) ==
  \E slug \in Slugs :
    StartRead(i, [NewReq EXCEPT !.route = "post", !.slug = slug,
                                !.url = "/api/posts/" \o slug],
              FALSE)

\* GET /api/posts/drafts/:slug
StartDraft(i) ==
  \E cred \in Credentials, slug \in Slugs :
    StartRead(i, [NewReq EXCEPT !.route = "draft", !.cred = cred, !.slug = slug,
                                !.url = "/api/posts/drafts/" \o slug],
              TRUE)

\* GET /api/posts/my-posts; non-strict routing serves the trailing slash too
MyPostsPaths == {"/api/posts/my-posts", "/api/posts/my-posts/"}

StartMyPosts(i) ==
  \E cred \in Credentials, path \in MyPostsPaths :
    StartRead(i, [NewReq EXCEPT !.route = "my-posts", !.cred = cred, !.url = path],
              TRUE)

\* GET /api/posts/saved without and with a query string
SavedQueries == { <<>>, << <<"k", "anonymous:">> >> }

StartSavedQuery(i) ==
  \E cred \in Credentials, query \in SavedQueries :
    StartRead(i, [NewReq EXCEPT !.route = "saved", !.cred = cred, !.query = query,
                                !.url = OriginalUrl("/api/posts/saved", query)],
              TRUE)

\* GET /api/posts/:slug for path segments no post has as its slug: ':slug'
\* matches any segment without '/'
OtherSegments == {"saved:u1:k", "my-posts:x"}

StartPostSegment(i) ==
  \E slug \in OtherSegments :
    StartRead(i, [NewReq EXCEPT !.route = "post", !.slug = slug,
                                !.url = "/api/posts/" \o slug],
              FALSE)

\* what the handler's reads return, and the response it decides on
ReadResult(r) ==
  LET p == PostBySlug(r.slug)
  IN  CASE r.route = "list" -> [status |-> 200, body |-> ListBody(r.query)]
        [] r.route = "saved" -> [status |-> 200, body |-> SavedBody(r.user)]
        [] r.route = "my-posts" -> [status |-> 200, body |-> MyPostsBody(r.user)]
        [] r.route = "post" ->
             IF p = "" \/ ~posts[p].published
             THEN [status |-> 404, body |-> ErrorBody("Post not found")]
             ELSE [status |-> 200,
                   body |-> [post |-> [PostWithLikes(p) EXCEPT !.viewCount = @ + 1]]]
        [] r.route = "draft" ->
             IF p = "" \/ posts[p].published
             THEN [status |-> 404, body |-> ErrorBody("Post not found")]
             ELSE IF r.user # posts[p].authorId
             THEN [status |-> 403, body |-> ErrorBody("Not authorized to view this post")]
             ELSE [status |-> 200, body |-> [post |-> PostWithLikes(p)]]

\* the store executes the handler's reads
QueryRead(i) ==
  /\ At(i, "query")
  /\ LET res == ReadResult(reqs[i])
     IN  Suspend(i, [reqs[i] EXCEPT !.pc = "respond", !.queries = @ + 1,
                                    !.status = res.status, !.body = res.body,
                                    !.asOf = clock])
  /\ UNCHANGED <<posts, created, saved, comments, cache, origin, clock, lastDone, started,
                 cap, budget>>

\* the handler resumes and calls res.json with the response it decided on.
\* GET /:slug, which decided on the post it found with viewCount + 1, first
\* has the store increment the post's viewCount; the update of a post that
\* is gone throws, which errorHandler answers
RespondRead(i) ==
  LET r == reqs[i]
      viewed == r.route = "post" /\ r.status = 200
  IN  /\ At(i, "respond")
      /\ UNCHANGED <<created, saved, comments, lastDone, started, cap, budget>>
      /\ IF ~viewed
         THEN Answer(i, r, r.status, r.body) /\ UNCHANGED <<posts, clock>>
         ELSE IF r.body.post.id \notin DOMAIN posts
         THEN /\ Finish(i, [r EXCEPT !.status = 500, !.pc = "done",
                                     !.body = ErrorBody("Internal server error")])
              /\ UNCHANGED <<posts, clock, cache, origin>>
         ELSE /\ posts' = [posts EXCEPT ![r.body.post.id].viewCount = @ + 1]
              /\ clock' = clock + 1
              /\ Answer(i, r, r.status, r.body)

(***************************************************************************)
(* routes/posts.ts: the mutating routes.  None of them has cacheMiddleware.*)
(***************************************************************************)
Creating == {i \in Slots : reqs[i].route = "create"}

\* validatePost, authenticateToken, handleValidationErrors, then the handler
\* up to its first persistence call
StartMutation(i, r0) ==
  /\ CanStart(i)
  /\ started' = started + 1
  /\ UNCHANGED <<posts, created, saved, comments, cache, origin, clock, lastDone, cap, budget>>
  /\ IF r0.cred = NoUser
     THEN Finish(i, [r0 EXCEPT !.status = 401, !.pc = "done",
                               !.body = ErrorBody("Access token required")])
     ELSE Suspend(i, [r0 EXCEPT !.user = r0.cred, !.pc = "check"])

\* POST /api/posts
StartCreate(i) ==
  /\ created + Cardinality(Creating) < Len(PostIdSeq)
  /\ \E in \in PostInputs :
       StartMutation(i, [NewReq EXCEPT !.route = "create", !.method = "POST",
                                       !.cred = in.cred, !.url = "/api/posts",
                                       !.title = in.title,
                                       !.published = in.published])

\* PUT /api/posts/:id
StartUpdate(i) ==
  \E in \in PostInputs, id \in PostIds :
    /\ in.cred = NoUser => id = "p1"
    /\ StartMutation(i, [NewReq EXCEPT !.route = "update", !.method = "PUT",
                                       !.cred = in.cred, !.url = "/api/posts/" \o id,
                                       !.id = id, !.title = in.title,
                                       !.published = in.published])

\* DELETE /api/posts/:id
StartDelete(i) ==
  \E in \in IdInputs :
    StartMutation(i, [NewReq EXCEPT !.route = "delete", !.method = "DELETE",
                                    !.cred = in.cred, !.id = in.id,
                                    !.url = "/api/posts/" \o in.id])

\* POST /api/posts/:id/save
StartSave(i) ==
  \E in \in IdInputs :
    StartMutation(i, [NewReq EXCEPT !.route = "save", !.method = "POST",
                                    !.cred = in.cred, !.id = in.id,
                                    !.url = "/api/posts/" \o in.id \o "/save"])

\* DELETE /api/posts/:id/save
StartUnsave(i) ==
  \E in \in IdInputs :
    StartMutation(i, [NewReq EXCEPT !.route = "unsave", !.method = "DELETE",
                                    !.cred = in.cred, !.id = in.id,
                                    !.url = "/api/posts/" \o in.id \o "/save"])

\* a first lookup whose result is not compared with req.user.id
CheckResultOfAnyUser(r) ==
  CASE r.route = "create" ->
         IF PostBySlug(generateSlug(r.title)) # ""
         THEN [status |-> 400, body |-> ErrorBody("A post with this title already exists")]
         ELSE [status |-> 0, body |-> Undefined]
    [] OTHER ->
         IF r.id \notin DOMAIN posts
         THEN [status |-> 404, body |-> ErrorBody("Post not found")]
         ELSE [status |-> 0, body |-> Undefined]

\* POST /api/posts/:id/like
StartLike(i) ==
  \E in \in IdInputs :
    StartMutation(i, [NewReq EXCEPT !.route = "like", !.method = "POST",
                                    !.cred = in.cred, !.id = in.id,
                                    !.url = "/api/posts/" \o in.id \o "/like"])

\* DELETE /api/posts/:id/like
StartUnlike(i) ==
  \E in \in IdInputs :
    StartMutation(i, [NewReq EXCEPT !.route = "unlike", !.method = "DELETE",
                                    !.cred = in.cred, !.id = in.id,
                                    !.url = "/api/posts/" \o in.id \o "/like"])

\* the rejection the first lookup leads to, status 0 when there is none
CheckResult(r) ==
  CASE r.route = "create" ->
         IF PostBySlug(generateSlug(r.title)) # ""
         THEN [status |-> 400, body |-> ErrorBody("A post with this title already exists")]
         ELSE [status |-> 0, body |-> Undefined]
    [] r.route \in {"update", "delete"} ->
         IF r.id \notin DOMAIN posts
         THEN [status |-> 404, body |-> ErrorBody("Post not found")]
         ELSE IF posts[r.id].authorId # r.user
         THEN [status |-> 403,
               body |-> ErrorBody(IF r.route = "update"
                                  THEN "Not authorized to update this post"
                                  ELSE "Not authorized to delete this post")]
         ELSE [status |-> 0, body |-> Undefined]
    [] r.route \in {"save", "unsave", "like", "unlike"} ->
         IF r.id \notin DOMAIN posts
         THEN [status |-> 404, body |-> ErrorBody("Post not found")]
         ELSE [status |-> 0, body |-> Undefined]

\* the handler's first lookup: findUnique by slug (create) or by id (the others)
CheckMutation(i) ==
  /\ At(i, "check")
  /\ UNCHANGED <<posts, created, saved, comments, cache, origin, clock, lastDone, started,
                 cap, budget>>
  /\ LET r == [reqs[i] EXCEPT !.queries = @ + 1]
         res == CheckResult(r)
     IN  IF res.status # 0
         THEN Finish(i, [r EXCEPT !.status = res.status, !.body = res.body, !.pc = "done"])
         ELSE CASE r.route = "create" ->
                     Suspend(i, [r EXCEPT !.slug = generateSlug(r.title), !.pc = "write"])
                [] r.route = "update" ->
                     IF r.title # posts[r.id].title
                     THEN Suspend(i, [r EXCEPT !.oldSlug = posts[r.id].slug,
                                               !.slug = generateSlug(r.title),
                                               !.pc = "check2"])
                     ELSE Suspend(i, [r EXCEPT !.oldSlug = posts[r.id].slug,
                                               !.slug = posts[r.id].slug,
                                               !.pc = "write"])
                [] r.route = "delete" ->
                     Suspend(i, [r EXCEPT !.oldSlug = posts[r.id].slug,
                                          !.slug = posts[r.id].slug, !.pc = "write"])
                [] r.route \in {"save", "unsave", "like", "unlike"} ->
                     Suspend(i, [r EXCEPT !.slug = posts[r.id].slug, !.pc = "check2"])

HasSaved(userId, id) == \E k \in DOMAIN saved : saved[k] = <<userId, id>>

\* whether the store holds the postLike row of the user and the post; the
\* rows go with the post (ON DELETE CASCADE)
HasLiked(userId, id) == id \in DOMAIN posts /\ userId \in posts[id].likedBy

\* a second lookup whose result the handler does not act on
CheckAgainUnheeded(i) ==
  /\ At(i, "check2")
  /\ UNCHANGED <<posts, created, saved, comments, cache, origin, clock, lastDone, started,
                 cap, budget>>
  /\ Suspend(i, [reqs[i] EXCEPT !.queries = @ + 1, !.pc = "write"])

\* a second lookup that clears the listings when it rejects the request
CheckAgainInvalidating(i) ==
  /\ At(i, "check2")
  /\ UNCHANGED <<posts, created, saved, comments, clock, lastDone, started, cap, budget>>
  /\ LET r == [reqs[i] EXCEPT !.queries = @ + 1]
         rejected ==
           CASE r.route = "update" -> PostBySlug(r.slug) \notin {"", r.id}
             [] r.route = "save" -> HasSaved(r.user, r.id)
             [] r.route = "unsave" -> ~HasSaved(r.user, r.id)
             [] r.route = "like" -> HasLiked(r.user, r.id)
             [] r.route = "unlike" -> ~HasLiked(r.user, r.id)
     IN  IF rejected
         THEN /\ Finish(i, [r EXCEPT !.status = 400, !.pc = "done",
                                     !.body = ErrorBody("Rejected")])
              /\ cache' = invalidatePostCache(cache, r.slug)
              /\ origin' = [k \in DOMAIN cache' |-> origin[k]]
         ELSE Suspend(i, [r EXCEPT !.pc = "write"]) /\ UNCHANGED <<cache, origin>>

\* the handler's second lookup: the new slug (update), the existing save or
\* like (save, unsave, like, unlike)
CheckAgain(i) ==
  /\ At(i, "check2")
  /\ UNCHANGED <<posts, created, saved, comments, cache, origin, clock, lastDone, started,
                 cap, budget>>
  /\ LET r == [reqs[i] EXCEPT !.queries = @ + 1]
         rejected ==
           CASE r.route = "update" -> PostBySlug(r.slug) \notin {"", r.id}
             [] r.route = "save" -> HasSaved(r.user, r.id)
             [] r.route = "unsave" -> ~HasSaved(r.user, r.id)
             [] r.route = "like" -> HasLiked(r.user, r.id)
             [] r.route = "unlike" -> ~HasLiked(r.user, r.id)
         message ==
           CASE r.route = "update" -> "A post with this title already exists"
             [] r.route = "save" -> "You have already saved this post"
             [] r.route = "unsave" -> "You have not saved this post"
             [] r.route = "like" -> "You have already liked this post"
             [] r.route = "unlike" -> "You have not liked this post"
     IN  IF rejected
         THEN Finish(i, [r EXCEPT !.status = 400, !.body = ErrorBody(message), !.pc = "done"])
         ELSE Suspend(i, [r EXCEPT !.pc = "write"])

\* the rows of saved that are not about post id (ON DELETE CASCADE)
RECURSIVE WithoutPost(_, _)
WithoutPost(rows, id) ==
  IF rows = <<>> THEN <<>>
  ELSE IF Head(rows)[2] = id THEN WithoutPost(Tail(rows), id)
  ELSE <<Head(rows)>> \o WithoutPost(Tail(rows), id)

RECURSIVE WithoutRow(_, _)
WithoutRow(rows, row) ==
  IF rows = <<>> THEN <<>>
  ELSE IF Head(rows) = row THEN WithoutRow(Tail(rows), row)
  ELSE <<Head(rows)>> \o WithoutRow(Tail(rows), row)

\* the rows of the tags table
KnownTags == {"t1"}

\* the postTag rows of the post after prisma.postTag.deleteMany, which PUT
\* /api/posts/:id runs ahead of its update when the body carries tags
AfterDeleteMany(r) ==
  IF r.route = "update" /\ r.hasTags /\ r.id \in DOMAIN posts
  THEN [posts EXCEPT ![r.id].tags = {}]
  ELSE posts

\* whether the store rejects the write: a unique constraint, a missing row,
\* a tag id the tags table does not hold
WriteFails(r) ==
  CASE r.route = "create" -> PostBySlug(r.slug) # "" \/ ~(r.tags \subseteq KnownTags)
    [] r.route = "update" ->
         \/ r.id \notin DOMAIN posts
         \/ PostBySlug(r.slug) \notin {"", r.id}
         \/ ~(r.tags \subseteq KnownTags)
    [] r.route = "delete" -> r.id \notin DOMAIN posts
    [] r.route = "save" -> r.id \notin DOMAIN posts \/ HasSaved(r.user, r.id)
    [] r.route = "unsave" -> ~HasSaved(r.user, r.id)
    [] r.route = "like" -> r.id \notin DOMAIN posts \/ HasLiked(r.user, r.id)
    [] r.route = "unlike" -> ~HasLiked(r.user, r.id)

\* the store executes the write; a rejected write reaches errorHandler (500)
WriteMutation(i) ==
  LET r == [reqs[i] EXCEPT !.queries = @ + 1]
      newId == PostIdSeq[created + 1]
  IN  /\ At(i, "write")
      /\ UNCHANGED <<comments, cache, origin, lastDone, started, cap, budget>>
      /\ IF WriteFails(r)
         THEN /\ Finish(i, [r EXCEPT !.status = 500, !.pc = "done",
                                     !.body = ErrorBody("Internal server error")])
              /\ posts' = AfterDeleteMany(r)
              /\ UNCHANGED <<created, saved, comments, clock>>
         ELSE /\ clock' = clock + 1
              /\ Suspend(i, [r EXCEPT !.w = clock + 1, !.pc = "finish",
                                      !.id = IF r.route = "create" THEN newId ELSE @])
              /\ CASE r.route = "create" ->
                        /\ posts' = [p \in DOMAIN posts \cup {newId} |->
                                       IF p = newId
                                       THEN [title |-> r.title, slug |-> r.slug,
                                             published |-> r.published,
                                             authorId |-> r.user,
                                             viewCount |-> 0, likedBy |-> {},
                                             tags |-> r.tags]
                                       ELSE posts[p]]
                        /\ created' = created + 1
                        /\ UNCHANGED saved
                   [] r.route = "update" ->
                        /\ posts' = [posts EXCEPT ![r.id] =
                                       [@ EXCEPT !.title = r.title, !.slug = r.slug,
                                                 !.published = r.published,
                                                 !.tags = IF r.hasTags THEN r.tags
                                                          ELSE @]]
                        /\ UNCHANGED <<created, saved>>
                   [] r.route = "delete" ->
                        /\ posts' = [p \in DOMAIN posts \ {r.id} |-> posts[p]]
                        /\ saved' = WithoutPost(saved, r.id)
                        /\ UNCHANGED created
                   [] r.route = "save" ->
                        /\ saved' = Append(saved, <<r.user, r.id>>)
                        /\ UNCHANGED <<posts, created>>
                   [] r.route = "unsave" ->
                        /\ saved' = WithoutRow(saved, <<r.user, r.id>>)
                        /\ UNCHANGED <<posts, created>>
                   [] r.route = "like" ->
                        /\ posts' = [posts EXCEPT ![r.id].likedBy = @ \cup {r.user}]
                        /\ UNCHANGED <<created, saved>>
                   [] r.route = "unlike" ->
                        /\ posts' = [posts EXCEPT ![r.id].likedBy = @ \ {r.user}]
                        /\ UNCHANGED <<created, saved>>

\* the invalidateCache calls the handler makes after its write
Invalidate(r) ==
  CASE r.route = "create" ->
         invalidateUserCaches(invalidateListCaches(cache), r.user)
    [] r.route = "update" ->
         invalidateUserCaches(
           invalidatePostCache(invalidateListCaches(cache), r.slug), r.user)
    [] r.route = "delete" ->
         invalidateUserCaches(
           invalidatePostCache(invalidateListCaches(cache), r.oldSlug), r.user)
    [] r.route \in {"save", "unsave", "like", "unlike"} ->
         invalidatePostCache(invalidateListCaches(cache), r.slug)

\* the kinds of mutation a finished request counts as
TagsOf(r) ==
  CASE r.route \in {"create", "delete"} -> {"post"}
    [] r.route = "update" -> {"post", "put:" \o r.oldSlug, "put:" \o r.slug}
    [] r.route \in {"save", "unsave"} -> {"save:" \o r.user}
    [] r.route \in {"like", "unlike"} -> {r.route \o ":" \o r.user \o ":" \o r.id}

\* the handler resumes after its write: invalidates, then answers
FinishMutation(i) ==
  LET r == reqs[i]
  IN  /\ At(i, "finish")
      /\ cache' = Invalidate(r)
      /\ origin' = [k \in DOMAIN cache' |-> origin[k]]
      /\ lastDone' = [t \in Tags |-> IF t \in TagsOf(r) THEN Max(lastDone[t], r.w)
                                     ELSE lastDone[t]]
      /\ Finish(i, [r EXCEPT !.pc = "done",
                             !.removed = DOMAIN cache \ DOMAIN Invalidate(r),
                             !.status = IF r.route \in {"create", "save", "like"}
                                        THEN 201 ELSE 200,
                             !.body = IF r.route \in {"like", "unlike"} /\ r.id \in DOMAIN posts
                                      THEN [message |-> "ok",
                                            likeCount |-> Cardinality(posts[r.id].likedBy)]
                                      ELSE [message |-> "ok"]])
      /\ UNCHANGED <<posts, created, saved, comments, clock, started, cap, budget>>

(***************************************************************************)
(* Specifications.                                                         *)
(***************************************************************************)
\* the posts table when the server starts: empty, or holding a post from an
\* earlier run (the database outlives the process, the cache does not)
InitialPosts ==
  { [p \in {} |-> Undefined],
    [p \in {"p1"} |-> [title |-> "Post 1", slug |-> generateSlug("Post 1"),
                       published |-> TRUE, authorId |-> "u1",
                       viewCount |-> 0, likedBy |-> {}, tags |-> {}]] }

InitStore ==
  /\ posts \in InitialPosts
  /\ created = Cardinality(DOMAIN posts)
  /\ saved = <<>>
  /\ comments = <<>>
  /\ clock = 0
  /\ now = 0
  /\ lastDone = [t \in Tags |-> 0]
  /\ reqs = [i \in Slots |-> NewReq]
  /\ started = 0

\* the server after start-up, requests handled one at a time
Init ==
  /\ InitStore
  /\ cache = EmptyCache
  /\ origin = EmptyCache
  /\ cap = 1
  /\ budget = MaxRequests

Next ==
  \E i \in Slots :
    \/ StartList(i)
    \/ StartSaved(i)
    \/ StartPost(i)
    \/ StartDraft(i)
    \/ QueryRead(i)
    \/ RespondRead(i)
    \/ StartCreate(i)
    \/ StartUpdate(i)
    \/ StartDelete(i)
    \/ StartSave(i)
    \/ StartUnsave(i)
    \/ CheckMutation(i)
    \/ CheckAgain(i)
    \/ WriteMutation(i)
    \/ FinishMutation(i)
    \/ Deliver(i)

Spec == Init /\ [][Next]_vars

\* the same server, one more request
InitLong ==
  /\ InitStore
  /\ cache = EmptyCache
  /\ origin = EmptyCache
  /\ cap = 1
  /\ budget = MaxRequests + 1

SpecLong == InitLong /\ [][Next]_vars

\* the same server with handlers interleaving at their persistence calls
InitConc ==
  /\ InitStore
  /\ cache = EmptyCache
  /\ origin = EmptyCache
  /\ cap = MaxInflight
  /\ budget = MaxRequests + 1

\* the listing and single-post reads racing with post creation and deletion
NextConc ==
  \E i \in Slots :
    \/ StartList(i)
    \/ StartPost(i)
    \/ QueryRead(i)
    \/ RespondRead(i)
    \/ StartCreate(i)
    \/ StartDelete(i)
    \/ CheckMutation(i)
    \/ WriteMutation(i)
    \/ FinishMutation(i)
    \/ Deliver(i)

SpecConc == InitConc /\ [][NextConc]_vars

\* the key and query of GET /api/posts?page=n
PageQuery(n) == << <<"page", ToString(n)>> >>

PageKey(n) ==
  generateCacheKey(OriginalUrl("/api/posts", PageQuery(n)), NoUser, PageQuery(n))

\* the cache after GET /api/posts?page=n was served for every n of 1..count
RECURSIVE PagesRange(_, _)
PagesRange(lo, hi) ==
  IF lo > hi THEN EmptyCache
  ELSE IF lo = hi THEN CacheSet(EmptyCache, PageKey(lo), ListBody(PageQuery(lo)))
  ELSE PagesRange(lo, (lo + hi) \div 2) @@ PagesRange((lo + hi) \div 2 + 1, hi)

PagesCached(count) == PagesRange(1, count)

\* the server once it has served enough distinct listing pages to fill the
\* cache, or to leave room for one more entry
InitFull ==
  /\ InitStore
  /\ \E count \in {MAX_SIZE - 1, MAX_SIZE} :
       /\ cache = PagesCached(count)
       /\ origin = [k \in DOMAIN cache |->
                      [t |-> Livetime(0, TTL_POSTS_LIST), at |-> 0,
                       status |-> 200, user |-> NoUser, asOf |-> 0,
                       route |-> "list", slug |-> ""]]
  /\ cap = 1
  /\ budget = MaxRequestsFull

SpecFull == InitFull /\ [][Next]_vars

\* the server with the my-posts route and with requests whose path and query
\* carry ':'; the store may hold a draft
DraftPost ==
  [p \in {"p1"} |-> [title |-> "Post 1", slug |-> generateSlug("Post 1"),
                     published |-> FALSE, authorId |-> "u1",
                     viewCount |-> 0, likedBy |-> {}, tags |-> {}]]

InitInval ==
  /\ posts \in InitialPosts \cup {DraftPost}
  /\ created = Cardinality(DOMAIN posts)
  /\ saved = <<>>
  /\ comments = <<>>
  /\ clock = 0
  /\ now = 0
  /\ lastDone = [t \in Tags |-> 0]
  /\ reqs = [i \in Slots |-> NewReq]
  /\ started = 0
  /\ cache = EmptyCache
  /\ origin = EmptyCache
  /\ cap = 1
  /\ budget = MaxRequests

NextInval ==
  \E i \in Slots :
    \/ StartList(i)
    \/ StartMyPosts(i)
    \/ StartSavedQuery(i)
    \/ StartPostSegment(i)
    \/ StartDraft(i)
    \/ QueryRead(i)
    \/ RespondRead(i)
    \/ StartCreate(i)
    \/ StartUpdate(i)
    \/ StartSave(i)
    \/ CheckMutation(i)
    \/ CheckAgain(i)
    \/ WriteMutation(i)
    \/ FinishMutation(i)
    \/ Deliver(i)

SpecInval == InitInval /\ [][NextInval]_vars

\* likes and unlikes of posts, one request at a time
NextLike ==
  \E i \in Slots :
    \/ StartLike(i)
    \/ StartUnlike(i)
    \/ CheckMutation(i)
    \/ CheckAgain(i)
    \/ WriteMutation(i)
    \/ FinishMutation(i)
    \/ Deliver(i)

SpecLike == InitLong /\ [][NextLike]_vars

\* likes and unlikes whose handlers overlap
SpecLikeConc == InitConc /\ [][NextLike]_vars

(***************************************************************************)
(* PUT /api/posts/:id with a tags list, one request at a time, on a post   *)
(* that was created with the tag t1.                                       *)
(***************************************************************************)
\* tag ids a body may carry: t1 is a row of the tags table, t2 is not
TagInputs == {"t1", "t2"}

StartUpdateTags(i) ==
  \E in \in PostInputs, id \in PostIds, tags \in SUBSET TagInputs :
    /\ in.cred = NoUser => id = "p1" /\ tags = {}
    /\ StartMutation(i, [NewReq EXCEPT !.route = "update", !.method = "PUT",
                                       !.cred = in.cred, !.url = "/api/posts/" \o id,
                                       !.id = id, !.title = in.title,
                                       !.published = in.published,
                                       !.hasTags = TRUE, !.tags = tags])

InitTags ==
  /\ posts = [p \in {"p1"} |->
                [title |-> "Post 1", slug |-> generateSlug("Post 1"),
                 published |-> TRUE, authorId |-> "u1", viewCount |-> 0,
                 likedBy |-> {}, tags |-> {"t1"}]]
  /\ created = 1
  /\ saved = <<>>
  /\ comments = <<>>
  /\ clock = 0
  /\ now = 0
  /\ lastDone = [t \in Tags |-> 0]
  /\ reqs = [i \in Slots |-> NewReq]
  /\ started = 0
  /\ cache = EmptyCache
  /\ origin = EmptyCache
  /\ cap = 1
  /\ budget = MaxRequests

NextTags ==
  \E i \in Slots :
    \/ StartUpdate(i)
    \/ StartUpdateTags(i)
    \/ CheckMutation(i)
    \/ CheckAgain(i)
    \/ WriteMutation(i)
    \/ FinishMutation(i)
    \/ Deliver(i)

SpecTags == InitTags /\ [][NextTags]_vars

(***************************************************************************)
(* Expiry.  Time passes between requests; node-cache deletes the entries   *)
(* it finds expired every checkperiod seconds.                             *)
(***************************************************************************)
\* checkperiod of the store, in seconds
Checkperiod == 120

\* the instants, in milliseconds, a behaviour may jump to
Instants ==
  { 5 * 60 * 1000 - 1, 5 * 60 * 1000, 10 * 60 * 1000,
    TTL_POSTS_LIST * 1000, TTL_POSTS_LIST * 1000 + 1,
    TTL_POSTS_SINGLE * 1000, TTL_POSTS_SINGLE * 1000 + Checkperiod * 1000 }

\* time passes while no request is being handled; the periodic check has run
\* last at the latest multiple of checkperiod
Tick ==
  /\ Quiet
  /\ Active = {}
  /\ \E instant \in Instants :
       /\ instant > now
       /\ now' = instant
       /\ LET lastCheck == (instant \div (Checkperiod * 1000)) * (Checkperiod * 1000)
              swept == Expired(origin, lastCheck)
          IN  /\ cache' = CacheDel(cache, swept)
              /\ origin' = CacheDel(origin, swept)
  /\ UNCHANGED <<posts, created, saved, comments, clock, lastDone, reqs, started,
                 cap, budget>>

NextTtl ==
  \/ \E i \in Slots :
       \/ StartList(i)
       \/ StartPost(i)
       \/ QueryRead(i)
       \/ RespondRead(i)
       \/ Deliver(i)
  \/ Tick

SpecTtl == Init /\ [][NextTtl]_vars

(***************************************************************************)
(* generateCacheKey on its own: two requests are drawn, then the key of    *)
(* each is derived.                                                        *)
(***************************************************************************)
\* paths of req.originalUrl
KeyPaths == {"/api/posts", "/api/posts/saved"}

\* query strings, as the <<name, value>> pairs supplied
KeyQueries ==
  { <<>>,
    << <<"a", "1">>, <<"b", "2">> >>,
    << <<"b", "2">>, <<"a", "1">> >>,
    << <<"a", "1:b:2">> >>,
    << <<"a", "1">>, <<"a", "2">> >>,
    << <<"a", "2">>, <<"a", "1">> >> }

KeyRequests ==
  { [NewReq EXCEPT !.route = "key", !.pc = "input", !.user = user,
                   !.url = OriginalUrl(path, query), !.query = query] :
      path \in KeyPaths, user \in Credentials, query \in KeyQueries }

InitKey ==
  /\ posts = [p \in {} |-> Undefined]
  /\ created = 0
  /\ saved = <<>>
  /\ comments = <<>>
  /\ clock = 0
  /\ now = 0
  /\ lastDone = [t \in Tags |-> 0]
  /\ started = 0
  /\ cache = EmptyCache
  /\ origin = EmptyCache
  /\ cap = 0
  /\ budget = 0
  /\ \E a, b \in KeyRequests :
       reqs = [i \in Slots |-> IF i = 1 THEN a ELSE IF i = 2 THEN b ELSE NewReq]

\* const cacheKey = generateCacheKey(req)
DeriveKey(i) ==
  /\ reqs[i].pc = "input"
  /\ LET r == reqs[i]
     IN  reqs' = [reqs EXCEPT ![i] =
                   [r EXCEPT !.key = generateCacheKey(r.url, r.user, r.query),
                             !.pc = "keyed"]]
  /\ UNCHANGED <<posts, created, saved, comments, cache, origin, clock, lastDone,
                 started, cap, budget, now>>

NextKey == \E i \in Slots : DeriveKey(i)

SpecKey == InitKey /\ [][NextKey]_vars

(***************************************************************************)
(* Comments and replies.  A comment's id is its position in comments; a    *)
(* parentId of 0 is the null of a top-level comment; createdAt is the time *)
(* of the insert, likedBy the users with a commentLike row for it.         *)
(* Comments are never updated or deleted by the routes.                    *)
(***************************************************************************)
\* requests a run of the comment routes serves
MaxThreadRequests == 2

\* the depth at which getThreadDepth stops walking
WalkLimit == 5

\* the thread depth at which the reply handler refuses
ReplyLimit == 5

DepthNeverExceeded(threadDepth) == FALSE

DepthExceededLoose(threadDepth) == threadDepth > ReplyLimit

\* the reply handler's test of the depth getThreadDepth resolved to
DepthExceeded(threadDepth) == threadDepth >= ReplyLimit

ReplyParentNone(r) == 0

\* parentId of the row the handler creates: commentId for a reply, none for a
\* comment on the post
ReplyParent(r) == r.commentId

\* a thread on post p1 that earlier replies built: comment k answers k - 1
Chain(n) ==
  [k \in 1..n |-> [postId |-> "p1", parentId |-> k - 1, userId |-> "u1",
                   createdAt |-> k, likedBy |-> {}]]

\* the posts the comment routes are tried on
ThreadPosts ==
  { [p \in {"p1"} |-> [title |-> "Post 1", slug |-> generateSlug("Post 1"),
                       published |-> TRUE, authorId |-> "u1",
                       viewCount |-> 0, likedBy |-> {}, tags |-> {}]],
    [p \in {"p1", "p2"} |->
       [title |-> IF p = "p1" THEN "Post 1" ELSE "Post 10",
        slug |-> generateSlug(IF p = "p1" THEN "Post 1" ELSE "Post 10"),
        published |-> TRUE, authorId |-> "u1", viewCount |-> 0, likedBy |-> {}, tags |-> {}]] }

\* who sends comments: a signed-in user, or nobody
ThreadCredentials == {"u1", NoUser}

\* authenticateToken, validateComment, handleValidationErrors, then the handler
\* up to its first persistence call
StartThread(i, r0) ==
  /\ CanStart(i)
  /\ started' = started + 1
  /\ UNCHANGED <<posts, created, saved, comments, cache, origin, clock, lastDone, cap, budget>>
  /\ IF r0.cred = NoUser
     THEN Finish(i, [r0 EXCEPT !.status = 401, !.pc = "done",
                               !.body = ErrorBody("Access token required")])
     ELSE Suspend(i, [r0 EXCEPT !.user = r0.cred, !.pc = "findPost"])

\* POST /api/posts/:postId/comments
StartComment(i) ==
  \E cred \in ThreadCredentials, id \in PostIds :
    StartThread(i, [NewReq EXCEPT !.route = "comment", !.method = "POST",
                                  !.cred = cred, !.id = id,
                                  !.url = "/api/posts/" \o id \o "/comments"])

\* POST /api/posts/:postId/comments/:commentId/reply; the commentId is one of
\* the comments there are, or one there is not
StartReply(i) ==
  \E cred \in ThreadCredentials, id \in PostIds, c \in 1..(Len(comments) + 1) :
    StartThread(i, [NewReq EXCEPT !.route = "reply", !.method = "POST",
                                  !.cred = cred, !.id = id, !.commentId = c,
                                  !.url = "/api/posts/" \o id \o "/comments/"
                                          \o ToString(c) \o "/reply"])

\* prisma.post.findUnique resolves
FindPost(i) ==
  /\ At(i, "findPost")
  /\ UNCHANGED <<posts, created, saved, comments, cache, origin, clock, lastDone, started,
                 cap, budget>>
  /\ LET r == [reqs[i] EXCEPT !.queries = @ + 1]
     IN  IF r.id \notin DOMAIN posts
         THEN Finish(i, [r EXCEPT !.status = 404, !.pc = "done",
                                  !.body = ErrorBody("Post not found")])
         ELSE Suspend(i, [r EXCEPT !.slug = posts[r.id].slug,
                                   !.pc = CASE r.route = "reply" -> "findParent"
                                            [] r.route = "comment" -> "insert"
                                            [] r.route = "comments" -> "tree"])

\* a parent lookup that does not compare parentComment.postId
FindParentOfAnyPost(i) ==
  /\ At(i, "findParent")
  /\ UNCHANGED <<posts, created, saved, comments, cache, origin, clock, lastDone, started,
                 cap, budget>>
  /\ LET r == [reqs[i] EXCEPT !.queries = @ + 1]
     IN  IF r.commentId \notin DOMAIN comments
         THEN Finish(i, [r EXCEPT !.status = 404, !.pc = "done",
                                  !.body = ErrorBody("Comment not found")])
         ELSE Suspend(i, [r EXCEPT !.cursor = r.commentId, !.depth = 0, !.pc = "walk"])

\* prisma.comment.findUnique of the parent resolves; getThreadDepth(commentId)
\* is called and suspends at its own findUnique
FindParent(i) ==
  /\ At(i, "findParent")
  /\ UNCHANGED <<posts, created, saved, comments, cache, origin, clock, lastDone, started,
                 cap, budget>>
  /\ LET r == [reqs[i] EXCEPT !.queries = @ + 1]
     IN  IF r.commentId \notin DOMAIN comments \/ comments[r.commentId].postId # r.id
         THEN Finish(i, [r EXCEPT !.status = 404, !.pc = "done",
                                  !.body = ErrorBody("Comment not found")])
         ELSE Suspend(i, [r EXCEPT !.cursor = r.commentId, !.depth = 0, !.pc = "walk"])

\* the reply handler once getThreadDepth has resolved to threadDepth
AfterDepth(i, r, threadDepth) ==
  IF DepthExceeded(threadDepth)
  THEN Finish(i, [r EXCEPT !.status = 400, !.pc = "done", !.depth = threadDepth,
                           !.body = ErrorBody("Maximum thread depth of 5 levels reached")])
  ELSE Suspend(i, [r EXCEPT !.depth = threadDepth, !.pc = "insert"])

\* a walk that goes on to the parent without looking at depth
getThreadDepthUnbounded(i) ==
  /\ At(i, "walk")
  /\ UNCHANGED <<posts, created, saved, comments, cache, origin, clock, lastDone, started,
                 cap, budget>>
  /\ LET r == [reqs[i] EXCEPT !.queries = @ + 1]
     IN  IF r.cursor \notin DOMAIN comments \/ comments[r.cursor].parentId = 0
         THEN AfterDepth(i, r, r.depth)
         ELSE Suspend(i, [r EXCEPT !.cursor = comments[r.cursor].parentId,
                                   !.depth = r.depth + 1])

\* the findUnique of getThreadDepth(cursor, depth) resolves: the call returns
\* depth, or calls itself on the parent, which returns at once at the limit
getThreadDepth(i) ==
  /\ At(i, "walk")
  /\ UNCHANGED <<posts, created, saved, comments, cache, origin, clock, lastDone, started,
                 cap, budget>>
  /\ LET r == [reqs[i] EXCEPT !.queries = @ + 1]
     IN  IF r.cursor \notin DOMAIN comments \/ comments[r.cursor].parentId = 0
         THEN AfterDepth(i, r, r.depth)
         ELSE IF r.depth + 1 >= WalkLimit
              THEN AfterDepth(i, r, r.depth + 1)
              ELSE Suspend(i, [r EXCEPT !.cursor = comments[r.cursor].parentId,
                                        !.depth = r.depth + 1])

\* prisma.comment.create takes effect
CreateComment(i) ==
  /\ At(i, "insert")
  /\ comments' = Append(comments, [postId |-> reqs[i].id,
                                   parentId |-> ReplyParent(reqs[i]),
                                   userId |-> reqs[i].user,
                                   createdAt |-> Len(comments) + 1,
                                   likedBy |-> {}])
  /\ clock' = clock + 1
  /\ UNCHANGED <<posts, created, saved, cache, origin, lastDone, started, cap, budget>>
  /\ Suspend(i, [reqs[i] EXCEPT !.queries = @ + 1, !.newId = Len(comments) + 1,
                                !.w = clock + 1, !.pc = "inserted"])

\* the handler resumes after the create: invalidatePostCache(post.slug), then 201
FinishComment(i) ==
  LET r == reqs[i]
      kept == invalidatePostCache(cache, r.slug)
  IN  /\ At(i, "inserted")
      /\ cache' = kept
      /\ origin' = [k \in DOMAIN kept |-> origin[k]]
      /\ UNCHANGED <<posts, created, saved, comments, clock, lastDone, started, cap, budget>>
      /\ Finish(i, [r EXCEPT !.pc = "done", !.status = 201,
                             !.removed = DOMAIN cache \ DOMAIN kept,
                             !.body = [message |-> IF r.route = "reply"
                                                   THEN "Reply created successfully"
                                                   ELSE "Comment created successfully",
                                       comment |-> comments[r.newId]]])

InitThreadStore ==
  /\ created = Cardinality(DOMAIN posts)
  /\ saved = <<>>
  /\ clock = 0
  /\ now = 0
  /\ lastDone = [t \in Tags |-> 0]
  /\ reqs = [i \in Slots |-> NewReq]
  /\ started = 0
  /\ cache = EmptyCache
  /\ origin = EmptyCache
  /\ budget = MaxThreadRequests

\* comments and replies handled one at a time
InitThread ==
  /\ posts \in ThreadPosts
  /\ comments \in {Chain(n) : n \in 0..(WalkLimit + 1)}
  /\ InitThreadStore
  /\ cap = 1

NextThread ==
  \E i \in Slots :
    \/ StartComment(i)
    \/ StartReply(i)
    \/ FindPost(i)
    \/ FindParent(i)
    \/ getThreadDepth(i)
    \/ CreateComment(i)
    \/ FinishComment(i)
    \/ Deliver(i)

SpecThread == InitThread /\ [][NextThread]_vars

\* comments and replies in flight together, on no comments or on a thread
\* that has a comment at every depth
InitThreadConc ==
  /\ posts \in {p \in ThreadPosts : DOMAIN p = PostIds}
  /\ comments \in {Chain(n) : n \in {0, WalkLimit + 1}}
  /\ InitThreadStore
  /\ cap = MaxInflight

SpecThreadConc == InitThreadConc /\ [][NextThread]_vars

(***************************************************************************)
(* getThreadDepth on its own, on any parent relation a comment table can   *)
(* hold.  The walk from a comment sees only the comments on its parent     *)
(* path, which ends at a top-level comment, at an id no comment has, or in *)
(* a cycle: node 1 of the path has parent tail, node k has parent k - 1.   *)
(***************************************************************************)
\* comments on a parent path
MaxNodes == 7

PathTo(n, tail) ==
  [k \in 1..n |-> [postId |-> "p1", parentId |-> IF k = 1 THEN tail ELSE k - 1,
                   userId |-> "u1", createdAt |-> k, likedBy |-> {}]]

\* the reply handler has called getThreadDepth(commentId)
InitDepth ==
  /\ posts \in {p \in ThreadPosts : DOMAIN p = {"p1"}}
  /\ \E n \in 1..MaxNodes, tail \in 0..(MaxNodes + 1) :
       tail <= n + 1 /\ comments = PathTo(n, tail)
  /\ created = 1
  /\ saved = <<>>
  /\ clock = 0
  /\ now = 0
  /\ lastDone = [t \in Tags |-> 0]
  /\ started = 1
  /\ cache = EmptyCache
  /\ origin = EmptyCache
  /\ budget = 1
  /\ cap = 1
  /\ \E c \in 1..(MaxNodes + 1) :
       /\ c <= Len(comments) + 1
       /\ reqs = [i \in Slots |->
                    IF i = 1
                    THEN [NewReq EXCEPT !.route = "reply", !.method = "POST",
                                        !.cred = "u1", !.user = "u1", !.id = "p1",
                                        !.commentId = c, !.cursor = c, !.pc = "walk"]
                    ELSE NewReq]

NextDepth == \E i \in Slots : getThreadDepth(i)

SpecDepth == InitDepth /\ [][NextDepth]_vars

(***************************************************************************)
(* GET /api/posts/:postId/comments.  The route has neither authenticateToken*)
(* nor cacheMiddleware.  Requests are handled one at a time here, so the   *)
(* queries of the tree assembly see one state of the store.                *)
(***************************************************************************)
\* the depth at which getNestedReplies stops descending
NestLimit == 5

NestingExceededEarly(currentDepth) == currentDepth >= NestLimit - 1

\* the test at the head of getNestedReplies
NestingExceeded(currentDepth) == currentDepth >= NestLimit

RECURSIVE OrderByCreatedAtDesc(_)
OrderByCreatedAtDesc(ids) ==
  IF ids = {} THEN <<>>
  ELSE LET first == CHOOSE c \in ids :
                      \A d \in ids : comments[c].createdAt >= comments[d].createdAt
       IN  <<first>> \o OrderByCreatedAtDesc(ids \ {first})

\* orderBy: { createdAt: 'asc' }
RECURSIVE OrderByCreatedAt(_)
OrderByCreatedAt(ids) ==
  IF ids = {} THEN <<>>
  ELSE LET first == CHOOSE c \in ids :
                      \A d \in ids : comments[c].createdAt <= comments[d].createdAt
       IN  <<first>> \o OrderByCreatedAt(ids \ {first})

LikeCountNone(c) == 0

\* prisma.commentLike.count({ where: { commentId } })
LikeCount(c) == Cardinality(comments[c].likedBy)

\* prisma.comment.findMany({ where: { parentId, postId }, orderBy: createdAt asc })
Replies(parentId, postId) ==
  OrderByCreatedAt({c \in DOMAIN comments :
                      comments[c].parentId = parentId /\ comments[c].postId = postId})

\* the object the handler returns for comment c
CommentNode(c, replies) ==
  [id |-> c, postId |-> comments[c].postId, userId |-> comments[c].userId,
   parentId |-> comments[c].parentId, createdAt |-> comments[c].createdAt,
   likeCount |-> LikeCount(c), replies |-> replies]

RECURSIVE getNestedReplies(_, _, _)
getNestedReplies(parentId, postId, currentDepth) ==
  IF NestingExceeded(currentDepth) THEN <<>>
  ELSE LET replies == Replies(parentId, postId)
       IN  [k \in 1..Len(replies) |->
              CommentNode(replies[k],
                          getNestedReplies(replies[k], postId, currentDepth + 1))]

\* commentsWithReplies: the top-level comments of the post, each with its replies
CommentsWithReplies(postId) ==
  LET top == Replies(0, postId)
  IN  [k \in 1..Len(top) |-> CommentNode(top[k], getNestedReplies(top[k], postId, 0))]

\* the request arrives; the handler suspends at prisma.post.findUnique
StartGetComments(i) ==
  /\ CanStart(i)
  /\ started' = started + 1
  /\ UNCHANGED <<posts, created, saved, comments, cache, origin, clock, lastDone, cap, budget>>
  /\ \E id \in PostIds :
       Suspend(i, [NewReq EXCEPT !.route = "comments", !.id = id, !.pc = "findPost",
                                 !.url = "/api/posts/" \o id \o "/comments"])

\* the findMany and count queries resolve; res.json({ comments })
GetComments(i) ==
  /\ At(i, "tree")
  /\ UNCHANGED <<posts, created, saved, comments, cache, origin, clock, lastDone, started,
                 cap, budget>>
  /\ Finish(i, [reqs[i] EXCEPT !.queries = @ + 1, !.status = 200, !.pc = "done",
                               !.asOf = clock,
                               !.body = [comments |-> CommentsWithReplies(reqs[i].id)]])

\* a thread on p1 whose deepest comment has likes, as earlier requests left it
InitForest ==
  /\ posts \in ThreadPosts
  /\ \E n \in {0, 2, WalkLimit + 1}, liked \in SUBSET Users :
       comments = [k \in 1..n |->
                     [Chain(n)[k] EXCEPT !.likedBy = IF k = n THEN liked ELSE {}]]
  /\ InitThreadStore
  /\ cap = 1

NextForest ==
  \/ NextThread
  \/ \E i \in Slots : StartGetComments(i) \/ GetComments(i)

SpecForest == InitForest /\ [][NextForest]_vars

(***************************************************************************)
(* Every mutating route beside GET /api/posts/:slug, one request at a time, *)
(* on a store in which each kind of rejection can happen: u1 has liked and *)
(* saved p1, whose thread has a comment at every depth.                    *)
(***************************************************************************)
InitReject ==
  /\ \E store \in {t \in ThreadPosts : DOMAIN t = {"p1"}} :
       posts = [store EXCEPT !["p1"].likedBy = {"u1"}]
  /\ created = Cardinality(DOMAIN posts)
  /\ saved = << <<"u1", "p1">> >>
  /\ comments = Chain(WalkLimit + 1)
  /\ clock = 1
  /\ now = 0
  /\ lastDone = [t \in Tags |-> 0]
  /\ reqs = [i \in Slots |-> NewReq]
  /\ started = 0
  /\ cache = EmptyCache
  /\ origin = EmptyCache
  /\ cap = 1
  /\ budget = MaxRequests

NextReject ==
  \/ NextThread
  \/ \E i \in Slots :
       \/ StartPost(i)
       \/ QueryRead(i)
       \/ RespondRead(i)
       \/ StartCreate(i)
       \/ StartUpdate(i)
       \/ StartDelete(i)
       \/ StartSave(i)
       \/ StartUnsave(i)
       \/ StartLike(i)
       \/ StartUnlike(i)
       \/ CheckMutation(i)
       \/ CheckAgain(i)
       \/ WriteMutation(i)
       \/ FinishMutation(i)

SpecReject == InitReject /\ [][NextReject]_vars

(***************************************************************************)
(* Properties.                                                             *)
(***************************************************************************)
ReadRoutes == {"list", "my-posts", "saved", "post", "draft"}

\* the key the middleware derives for a request
KeyOf(r) == generateCacheKey(r.url, r.user, r.query)

\* C1: with requests handled one at a time, a listing sent for GET /api/posts
\* after a POST, PUT or DELETE of a post succeeded is not the listing of an
\* entry computed before that mutation: it is the listing the store gives now.
ListingFreshAfterPostMutation ==
  cap = 1 =>
    \A r \in Responses :
      r.route = "list" /\ r.method = "GET" /\ "posts" \in DOMAIN r.body =>
        r.asOf >= lastDone["post"] \/ r.body = ListBody(r.query)

\* C2: under every interleaving, a GET /api/posts (no query) answered from the
\* cache, hence started and answered in one step, is never answered with a
\* listing computed before the write of a post mutation that has already
\* finished its write and its invalidation, and differing from the stored one.
NoStaleListingAfterFinishedMutation ==
  \A r \in Responses :
    r.route = "list" /\ r.hit /\ r.key = "/api/posts:anonymous:" =>
      r.asOf >= lastDone["post"] \/ r.body = ListBody(r.query)

\* C3: with requests handled one at a time, a GET /api/posts/:slug answered
\* from the cache is not answered with a payload computed before a finished
\* PUT of the post that had this slug before the update or has it after.
SinglePostFreshAfterUpdate ==
  cap = 1 =>
    \A r \in Responses :
      r.route = "post" /\ r.hit => r.asOf >= lastDone["put:" \o r.slug]

\* C4: with requests handled one at a time, a GET /api/posts/saved by user u
\* answered from the cache is not answered with a payload computed before a
\* finished save or unsave by u.
SavedListFreshAfterSave ==
  cap = 1 =>
    \A r \in Responses :
      r.route = "saved" /\ r.hit => r.asOf >= lastDone["save:" \o r.user]

\* C5: every cache entry was populated by a successful response: none was
\* stored by a response sent with an error status.
OnlySuccessfulResponsesCached ==
  \A k \in DOMAIN cache : origin[k].status < 400

\* a request that reached the cache middleware with a method other than GET
BypassedMiddleware(r) ==
  r.route \in ReadRoutes /\ r.method # "GET" /\ r.status # 401

\* the step is taken by the handler in slot i
StepOf(i) == reqs'[i] # reqs[i]

\* C6: a request whose method is not GET passes the middleware with exactly
\* one next(): it makes no cache.get, is not answered from the cache, gets no
\* caching wrapper, and no step of it changes the content of the cache.
NonGetBypassesCache ==
  /\ [](\A i \in Slots :
          BypassedMiddleware(reqs[i]) =>
            /\ reqs[i].nextCalls = 1
            /\ reqs[i].cacheReads = 0
            /\ ~reqs[i].hit
            /\ ~reqs[i].wrapped)
  /\ [][\A i \in Slots :
          StepOf(i) /\ (BypassedMiddleware(reqs[i]) \/ BypassedMiddleware(reqs'[i]))
            => cache' = cache]_vars

\* C6 witness: a HEAD request was answered by its handler although the cache
\* holds an entry under the key a GET of the same URL would be answered from.
NonGetBypassedAnEntry ==
  \E r \in Responses :
    /\ r.method = "HEAD"
    /\ r.status = 200
    /\ r.queries = 1
    /\ KeyOf(r) \in DOMAIN cache

\* slot i receives a request in this step and the cache middleware looks it up
LooksUp(i) ==
  reqs[i].pc = "idle" /\ reqs'[i].pc # "idle" /\ reqs'[i].cacheReads = 1

\* C7: when the cache holds an entry for the request's key the middleware
\* answers with exactly the stored payload, without next() and without any
\* persistence query; when it holds none, next() is called exactly once and
\* the middleware sends nothing itself.
HitShortCircuitsMissCallsNext ==
  /\ [][\A i \in Slots :
          LooksUp(i) =>
            IF KeyOf(reqs'[i]) \in DOMAIN cache
            THEN /\ reqs'[i].hit
                 /\ reqs'[i].pc = "done"
                 /\ reqs'[i].body = cache[KeyOf(reqs'[i])]
                 /\ reqs'[i].nextCalls = 0
                 /\ reqs'[i].queries = 0
                 /\ cache' = cache
            ELSE /\ ~reqs'[i].hit
                 /\ reqs'[i].nextCalls = 1]_vars
  /\ [](\A i \in Slots :
          /\ reqs[i].hit => reqs[i].nextCalls = 0 /\ reqs[i].queries = 0
          /\ reqs[i].pc \in {"query", "respond"} =>
               ~reqs[i].hit /\ reqs[i].nextCalls = 1)

\* C7 witness: a request was answered from the cache with the payload stored
\* by an earlier request for the same key.
AnsweredFromCache ==
  \E r \in Responses :
    r.hit /\ r.route = "list" /\ r.body = cache[r.key] /\ r.nextCalls = 0

\* C8: a GET handler that has computed its response is answered with exactly
\* that payload and status, whether or not cache.set could store it.
CacheFailureNeverFailsRequest ==
  [][\A i \in Slots :
       reqs[i].pc = "respond" /\ reqs'[i].pc = "done" =>
         reqs'[i].status = reqs[i].status /\ reqs'[i].body = reqs[i].body]_vars

\* C9: the cache never holds more than MAX_SIZE entries.
CacheSizeBounded == Cardinality(DOMAIN cache) <= MAX_SIZE

\* C9 witness: a set was issued while the cache held MAX_SIZE entries, and it
\* still holds MAX_SIZE.
SetAttemptedAtCapacity ==
  /\ Cardinality(DOMAIN cache) = MAX_SIZE
  /\ \E r \in Responses : r.wrapped /\ r.key \notin DOMAIN cache

\* C10: after a set was issued (also with the store at capacity) a get of the
\* new key returns the new value: the entry of the response's key is its body.
SetAtCapacityStoresNewEntry ==
  \A r \in Responses :
    r.wrapped => r.key \in DOMAIN cache /\ cache[r.key] = r.body

\* the slots whose request has had its key derived
Keyed == {i \in Slots : reqs[i].pc = "keyed"}

\* how many of the supplied parameters of query equal the pair p
Occurrences(query, p) == Cardinality({i \in 1..Len(query) : query[i] = p})

\* the same parameters were supplied, in whatever order
SameParameters(q1, q2) ==
  /\ Len(q1) = Len(q2)
  /\ \A i \in 1..Len(q1) : Occurrences(q1, q1[i]) = Occurrences(q2, q1[i])

\* C12: two requests with the same normalized path, the same identity and the
\* same query parameters get the same key, whatever the order the parameters
\* were supplied in.
KeyIgnoresParameterOrder ==
  \A i, j \in Keyed :
    /\ BeforeQuestionMark(reqs[i].url) = BeforeQuestionMark(reqs[j].url)
    /\ reqs[i].user = reqs[j].user
    /\ SameParameters(reqs[i].query, reqs[j].query)
    => reqs[i].key = reqs[j].key

\* req.query of both requests is the same object: the same names, each with
\* the same value or array of values
SameQueryObject(q1, q2) ==
  /\ {q1[i][1] : i \in 1..Len(q1)} = {q2[i][1] : i \in 1..Len(q2)}
  /\ \A i \in 1..Len(q1) :
       QueryValues(q1, q1[i][1]) = QueryValues(q2, q1[i][1])

\* C13: two requests that got the same key have the same normalized path,
\* the same identity and the same query-parameter map.
KeyIsInjective ==
  \A i, j \in Keyed :
    reqs[i].key = reqs[j].key =>
      /\ BeforeQuestionMark(reqs[i].url) = BeforeQuestionMark(reqs[j].url)
      /\ reqs[i].user = reqs[j].user
      /\ SameQueryObject(reqs[i].query, reqs[j].query)

\* C11: a request answered from the cache is answered with a payload that a
\* request of the same identity stored.
HitServesOwnIdentity ==
  \A r \in Responses : r.hit => origin[r.key].user = r.user

\* the handler in slot i resumes after its write, runs its invalidateCache
\* calls and answers (every mutating route starts with invalidateListCaches)
Invalidates(i) == reqs[i].pc = "finish" /\ reqs'[i].pc = "done"

\* C14: once a handler has called invalidateListCaches, the cache holds no
\* entry stored for a GET /api/posts or a GET /api/posts/my-posts request.
ListEntriesRemoved ==
  [][\A i \in Slots :
       Invalidates(i) =>
         \A k \in DOMAIN cache' : origin'[k].route \notin {"list", "my-posts"}]_vars

\* C15: where a handler is about to call invalidateListCaches, every entry
\* stored for a single-post or draft read is in the result with its value.
SinglePostEntriesKept ==
  \A i \in Slots :
    reqs[i].pc = "finish" =>
      \A k \in DOMAIN cache :
        origin[k].route \in {"post", "draft"} =>
          /\ k \in DOMAIN invalidateListCaches(cache)
          /\ invalidateListCaches(cache)[k] = cache[k]

\* the slug the handler passes to invalidatePostCache
InvalidatedSlug(r) == IF r.route = "delete" THEN r.oldSlug ELSE r.slug

\* C16: once a handler has called invalidatePostCache(slug), the cache holds
\* no entry that a successful read of /api/posts/<slug> or of
\* /api/posts/drafts/<slug> stored.
PostEntriesRemoved ==
  [][\A i \in Slots :
       Invalidates(i) /\ reqs[i].route \in {"update", "delete", "save", "unsave"} =>
         \A k \in DOMAIN cache' :
           ~(/\ origin'[k].route \in {"post", "draft"}
             /\ origin'[k].status = 200
             /\ origin'[k].slug = InvalidatedSlug(reqs[i]))]_vars

\* C17: once a handler has called invalidateUserCaches(userId), the cache
\* holds no entry stored by a request of identity userId.
UserEntriesRemoved ==
  [][\A i \in Slots :
       Invalidates(i) /\ reqs[i].route \in {"create", "update", "delete"} =>
         \A k \in DOMAIN cache' : origin'[k].user # reqs[i].user]_vars

\* C17 witness: the invalidation of a finished POST /api/posts by u1 deleted
\* the entry of u1's saved list, whose key ends with an empty query string.
UserEntryWithEmptyQueryRemoved ==
  \E r \in Responses :
    r.route = "create" /\ r.user = "u1" /\ "/api/posts/saved:u1:" \in r.removed

(***************************************************************************)
(* Comment threads.                                                        *)
(***************************************************************************)
\* the number of parent edges between comment c and its top-level root
RECURSIVE DepthOf(_)
DepthOf(c) == IF comments[c].parentId = 0 THEN 0 ELSE 1 + DepthOf(comments[c].parentId)

\* the comment the reply addresses exists
TargetExists(r) == r.commentId \in DOMAIN comments

\* the comment the reply addresses exists and belongs to the post of the URL
TargetOnPost(r) == TargetExists(r) /\ comments[r.commentId].postId = r.id

DepthRefusal == ErrorBody("Maximum thread depth of 5 levels reached")

ThreadDepthBounded == \A c \in DOMAIN comments : DepthOf(c) <= 5

\* C20 witness: a reply to a comment at depth 5 was refused while another
\* reply, past its depth check, is suspended before its insert.
RefusedBesideSuspendedInsert ==
  \E i, j \in Slots :
    /\ i # j
    /\ reqs[i].route = "reply"
    /\ reqs[i].pc = "done"
    /\ reqs[i].status = 400
    /\ DepthOf(reqs[i].commentId) = 5
    /\ reqs[j].route = "reply"
    /\ reqs[j].pc = "insert"

(***************************************************************************)
(* The forest of GET /api/posts/:postId/comments.                          *)
(***************************************************************************)
\* the ids of the nodes of a forest, parents before their replies
RECURSIVE Flatten(_)
Flatten(forest) ==
  IF forest = <<>> THEN <<>>
  ELSE <<forest[1].id>> \o Flatten(forest[1].replies) \o Flatten(Tail(forest))

\* the nodes of a forest
RECURSIVE NodesOf(_)
NodesOf(forest) ==
  IF forest = <<>> THEN {}
  ELSE {forest[1]} \cup NodesOf(forest[1].replies) \cup NodesOf(Tail(forest))

\* the responses of the comments route that carry a forest
Forests == {r \in Responses : r.route = "comments" /\ r.status = 200}

\* the ids of a list of nodes, which holds none of them twice
IdsOf(nodes) == {nodes[k].id : k \in DOMAIN nodes}

NoneTwice(nodes) == Cardinality(IdsOf(nodes)) = Len(nodes)

\* C21: every comment of the post, whatever depth the reply route admitted it
\* at, appears exactly once in the forest GET /api/posts/:postId/comments
\* returns for the post.
ForestHoldsEveryComment ==
  \A r \in Forests :
    \A c \in DOMAIN comments :
      comments[c].postId = r.id =>
        Cardinality({k \in DOMAIN Flatten(r.body.comments) :
                       Flatten(r.body.comments)[k] = c}) = 1

\* C21 witness: the forest returned holds the comment a reply request has
\* just created at depth 5, the deepest the reply route admits.
ForestHoldsDeepestComment ==
  \E r \in Forests :
    /\ clock > 0
    /\ \E n \in NodesOf(r.body.comments) : DepthOf(n.id) = 5 /\ n.id = Len(comments)

\* C22: in the forest returned, the top-level comments and the replies of
\* every node are in ascending order of creation time.
SiblingsOldestFirst ==
  \A r \in Forests :
    \A nodes \in {r.body.comments} \cup {n.replies : n \in NodesOf(r.body.comments)} :
      \A j, k \in DOMAIN nodes :
        j < k => comments[nodes[j].id].createdAt <= comments[nodes[k].id].createdAt

\* C22 witness: the forest returned has a node with two replies and was
\* returned after one of them was created by a reply request.
ForestWithSiblings ==
  \E r \in Forests :
    /\ clock > 0
    /\ \E n \in NodesOf(r.body.comments) : Len(n.replies) >= 2

\* C23: the roots of the forest are the top-level comments of the post, each
\* once; the replies of a node are the comments of the post whose parent it
\* is, each once; a node's likeCount is the number of likes of its comment.
ForestMirrorsStore ==
  \A r \in Forests :
    /\ NoneTwice(r.body.comments)
    /\ IdsOf(r.body.comments) =
         {c \in DOMAIN comments : comments[c].postId = r.id /\ comments[c].parentId = 0}
    /\ \A n \in NodesOf(r.body.comments) :
         /\ NoneTwice(n.replies)
         /\ IdsOf(n.replies) =
              {c \in DOMAIN comments :
                 comments[c].postId = r.id /\ comments[c].parentId = n.id}
         /\ n.likeCount = Cardinality(comments[n.id].likedBy)

\* C23 witness: the forest returned has a comment two users like, and the
\* store holds a comment of another post, which the forest leaves out.
ForestWithLikesBesideOtherPost ==
  \E r \in Forests :
    /\ \E n \in NodesOf(r.body.comments) : n.likeCount = 2
    /\ \E c \in DOMAIN comments : comments[c].postId # r.id

(***************************************************************************)
(* getThreadDepth.                                                         *)
(***************************************************************************)
\* the parent edges on the path from comment c, counted up to fuel: an id no
\* comment has and a top-level comment have none
RECURSIVE EdgesFrom(_, _)
EdgesFrom(c, fuel) ==
  IF fuel = 0 \/ c \notin DOMAIN comments THEN 0
  ELSE IF comments[c].parentId = 0 THEN 0
  ELSE 1 + EdgesFrom(comments[c].parentId, fuel - 1)

\* the actual depth of c; a path longer than the table is a cycle, of
\* unbounded depth
ActualDepth(c) == EdgesFrom(c, Len(comments) + 5)

\* C24: getThreadDepth makes at most 5 parent lookups and resolves to
\* min(actual depth, 5), whatever the parent relation: a cycle and a parent id
\* of no comment included.
WalkBoundedAndCapped ==
  \A i \in Slots :
    reqs[i].route = "reply" =>
      /\ reqs[i].queries <= 5
      /\ reqs[i].pc = "walk" => reqs[i].queries < 5
      /\ reqs[i].pc \in {"insert", "done"} =>
           reqs[i].depth = IF ActualDepth(reqs[i].commentId) < 5
                           THEN ActualDepth(reqs[i].commentId) ELSE 5

\* C24 witness: on a parent cycle the walk resolved to 5 after 5 lookups.
WalkLeftCycle ==
  \E i \in Slots :
    /\ reqs[i].pc = "done"
    /\ reqs[i].queries = 5
    /\ reqs[i].depth = 5
    /\ ActualDepth(reqs[i].commentId) > Len(comments)

(***************************************************************************)
(* Requests for what is not there.                                         *)
(***************************************************************************)
PostNotFound == ErrorBody("Post not found")

Responds(i) == reqs[i].pc # "done" /\ reqs'[i].pc = "done"

\* C28: every GET /api/posts/:slug answered 200 with a post has incremented
\* the stored viewCount of that post by exactly 1, and the viewCount of the
\* response is the stored one after the request.
EveryViewCounted ==
  [][\A i \in Slots :
       Responds(i) /\ reqs'[i].route = "post" /\ reqs'[i].method = "GET"
         /\ reqs'[i].status = 200 /\ "post" \in DOMAIN reqs'[i].body =>
         LET id == reqs'[i].body.post.id
         IN  /\ id \in DOMAIN posts /\ id \in DOMAIN posts'
             /\ posts'[id].viewCount = posts[id].viewCount + 1
             /\ reqs'[i].body.post.viewCount = posts'[id].viewCount]_vars

(***************************************************************************)
(* Likes of posts.                                                         *)
(***************************************************************************)
\* the last successful request of user u on post p was a like
LastWasLike(u, p) ==
  lastDone["like:" \o u \o ":" \o p] > lastDone["unlike:" \o u \o ":" \o p]

\* an authenticated like or unlike of a post there is, answered without a write
RefusedLikes ==
  {r \in Responses : /\ r.route \in {"like", "unlike"}
                     /\ r.user # NoUser
                     /\ r.id \in DOMAIN posts
                     /\ r.w = 0}

\* C29: with likes and unlikes handled one at a time, between requests user u
\* likes post p exactly when u's last successful request on p was a like; a
\* like while liking is answered 400 'You have already liked this post', an
\* unlike while not liking 400 'You have not liked this post', and no step of
\* such a request changes the store; a successful request returns the number
\* of users then liking the post.
LikesFollowLastRequest ==
  /\ []((\A i \in Slots : reqs[i].pc \in {"idle", "done"}) =>
          \A u \in Users, p \in DOMAIN posts : HasLiked(u, p) <=> LastWasLike(u, p))
  /\ [](\A r \in RefusedLikes :
          /\ r.status = 400
          /\ r.route = "like" =>
               HasLiked(r.user, r.id) /\ r.body = ErrorBody("You have already liked this post")
          /\ r.route = "unlike" =>
               ~HasLiked(r.user, r.id) /\ r.body = ErrorBody("You have not liked this post"))
  /\ [](\A r \in Responses :
          r.route \in {"like", "unlike"} /\ r.w > 0 =>
            /\ r.status = IF r.route = "like" THEN 201 ELSE 200
            /\ HasLiked(r.user, r.id) <=> r.route = "like"
            /\ r.body.likeCount = Cardinality(posts[r.id].likedBy))
  /\ [][\A i \in Slots :
          \/ reqs[i].route = "like" /\ reqs[i].w = 0 /\ HasLiked(reqs[i].cred, reqs[i].id)
          \/ reqs[i].route = "unlike" /\ reqs[i].w = 0
               /\ ~HasLiked(reqs[i].cred, reqs[i].id)
          => posts' = posts]_vars

\* C29 witness: after a like and an unlike of p1 by u1 succeeded, a second
\* unlike by u1 was answered 400.
SecondUnlikeRefused ==
  \E r \in RefusedLikes :
    /\ r.route = "unlike"
    /\ r.status = 400
    /\ lastDone["unlike:" \o r.user \o ":" \o r.id] > lastDone["like:" \o r.user \o ":" \o r.id]
    /\ lastDone["like:" \o r.user \o ":" \o r.id] > 0

(***************************************************************************)
(* Slugs.                                                                  *)
(***************************************************************************)
TitleTaken == ErrorBody("A post with this title already exists")

\* the title of request r slugifies to the slug of a post other than its own
SlugCollides(r) ==
  IF r.route = "create" THEN PostBySlug(generateSlug(r.title)) # ""
  ELSE /\ r.id \in DOMAIN posts
       /\ r.title # posts[r.id].title
       /\ PostBySlug(generateSlug(r.title)) \notin {"", r.id}

UnpublishedStaysPrivate ==
  \A r \in Responses :
    r.route \in {"post", "draft"} /\ "post" \in DOMAIN r.body =>
      LET id == r.body.post.id
      IN  id \in DOMAIN posts /\ ~posts[id].published =>
            r.route = "draft" /\ r.user = posts[id].authorId

(***************************************************************************)
(* Expiry.                                                                 *)
(***************************************************************************)
\* C31: a response answered from the cache carries an entry stored less than
\* 5 minutes ago when the entry was stored for a list route, and less than
\* 10 minutes ago when it was stored for a single-post route.
HitWithinTtlMinutes ==
  \A r \in Responses :
    r.hit =>
      now - origin[r.key].at <
        (IF origin[r.key].route \in {"post", "draft"} THEN 10 ELSE 5) * 60 * 1000

(***************************************************************************)
(* Racing misses.                                                          *)
(***************************************************************************)
\* no mutation request has written, is in flight or has finished
NoMutationSoFar ==
  /\ \A t \in Tags : lastDone[t] = 0
  /\ \A j \in Slots : reqs[j].route \in ReadRoutes \cup {"idle"}

\* C32: when a GET that missed answers while the entry of its key has been
\* stored, since its lookup, by another GET that missed, and no mutation
\* request has run, the payload it stores equals the one already stored.
RacingMissesStoreSamePayload ==
  [][\A i \in Slots :
       /\ reqs[i].pc = "respond"
       /\ reqs'[i].pc = "done"
       /\ reqs[i].wrapped
       /\ reqs[i].key \in DOMAIN cache
       /\ reqs[i].key \in DOMAIN cache'
       /\ NoMutationSoFar
       => cache'[reqs[i].key] = cache[reqs[i].key]]_vars

(***************************************************************************)
(* Rejected mutations.                                                     *)
(***************************************************************************)
Rejections == {400, 401, 403, 404}

\* C33: a step of a request to a mutating route that does not answer, or that
\* answers 400, 401, 403 or 404, leaves every cache entry as it was; so a
\* rejected mutation request invalidates nothing.
RejectedMutationKeepsCache ==
  [][\A i \in Slots :
       /\ reqs'[i] # reqs[i]
       /\ reqs'[i].route \notin ReadRoutes \cup {"idle", "comments"}
       /\ reqs'[i].pc = "done" => reqs'[i].status \in Rejections
       => cache' = cache /\ origin' = origin]_vars

\* C33 witness: a like by a user who already likes the post was answered 400
\* while the cache held an entry.
RepeatedLikeRejectedBesideEntry ==
  \E r \in Responses :
    r.route = "like" /\ r.status = 400 /\ DOMAIN cache # {}

(***************************************************************************)
(* What the invalidations leave alone.                                     *)
(***************************************************************************)
\* C34: where a handler is about to call invalidatePostCache(slug), every
\* entry a successful read of a post with another slug stored is in the
\* result with its value.
OtherSlugEntriesKept ==
  \A i \in Slots :
    reqs[i].pc = "finish" /\ reqs[i].route \in {"update", "delete", "save", "unsave"} =>
      LET slug == InvalidatedSlug(reqs[i])
          kept == invalidatePostCache(cache, slug)
      IN  \A k \in DOMAIN cache :
            /\ origin[k].route \in {"post", "draft"}
            /\ origin[k].status = 200
            /\ origin[k].slug # slug
            => k \in DOMAIN kept /\ kept[k] = cache[k]

\* C35: where a handler is about to call invalidateUserCaches(userId), every
\* entry stored by a request of another identity is in the result with its
\* value.
OtherIdentityEntriesKept ==
  \A i \in Slots :
    reqs[i].pc = "finish" /\ reqs[i].route \in {"create", "update", "delete"} =>
      LET kept == invalidateUserCaches(cache, reqs[i].user)
      IN  \A k \in DOMAIN cache :
            origin[k].user # reqs[i].user => k \in DOMAIN kept /\ kept[k] = cache[k]

(***************************************************************************)
(* Overlapping likes.                                                      *)
(***************************************************************************)
\* C36: a like request is answered 201, or 400 when the user already likes
\* the post (401 and 404 apart), never 500, also when it overlaps another like
\* by the same user for the same post.
OverlappingLikesNeverFail ==
  \A r \in Responses : r.route = "like" => r.status \in {201, 400, 401, 404}

(***************************************************************************)
(* The status of a response answered from the cache.                       *)
(***************************************************************************)
\* C37: a response answered from the cache carries the status code of the
\* response that populated the entry.
HitCarriesStoredStatus ==
  \A r \in Responses : r.hit => r.status = origin[r.key].status

(***************************************************************************)
(* Authentication before the cache.                                        *)
(***************************************************************************)
\* C38: a request without valid credentials to GET /api/posts/my-posts,
\* /api/posts/saved or /api/posts/drafts/:slug is answered 401 'Access token
\* required' without a call of cache.get, whatever the cache holds.
UnauthenticatedNeverReachesCache ==
  \A r \in Responses :
    r.route \in {"my-posts", "saved", "draft"} /\ r.cred = NoUser =>
      /\ r.status = 401
      /\ r.body = ErrorBody("Access token required")
      /\ ~r.hit
      /\ r.cacheReads = 0
      /\ r.nextCalls = 0

\* C38 witness: a request without credentials to a route was answered 401
\* while the cache held an entry stored for that route.
RefusedBesideEntryOfRoute ==
  \E r \in Responses :
    /\ r.route \in {"my-posts", "saved", "draft"}
    /\ r.cred = NoUser
    /\ r.status = 401
    /\ \E k \in DOMAIN cache : origin[k].route = r.route /\ origin[k].status = 200

(***************************************************************************)
(* Tags of a post whose update fails.                                      *)
(***************************************************************************)
\* C39: when the store rejects the write of a PUT /api/posts/:id that passed
\* its existence, ownership and slug checks, the post has the tags it had
\* before the request.
FailedUpdateKeepsTags ==
  [][\A i \in Slots :
       /\ reqs[i].route = "update"
       /\ reqs[i].pc = "write"
       /\ reqs'[i].pc = "done"
       /\ reqs'[i].status = 500
       /\ reqs[i].id \in DOMAIN posts
       => posts'[reqs[i].id].tags = posts[reqs[i].id].tags]_vars

====
